---- MODULE Spec2Model ----
(***************************************************************************)
(* Model of the Graph container of src/common/graph.hpp / graph.cpp:       *)
(* the three constructors (empty, pre-sized, ingested from an edge-list    *)
(* file) and the mutation API (add_edge, remove_edge, add_vertex, clear).  *)
(*                                                                         *)
(* A text line is represented by the sequence of its whitespace-separated  *)
(* tokens; a token is a natural number (a run of digits), Junk (a token    *)
(* that operator>> cannot read as size_t) or Hash (a token starting with   *)
(* the character '#').  The empty sequence is a line that is empty or      *)
(* holds only whitespace.                                                  *)
(*                                                                         *)
(* Vertex ids are 0-based as in the code; adj_list_ is a TLA+ sequence,    *)
(* so the neighbour list of vertex u is adj_list_[u + 1].                  *)
(***************************************************************************)
EXTENDS Integers, Sequences, FiniteSets, TLC

\* ---- bounds of the model ------------------------------------------------
MaxLabel == 1
MaxTokens == 3
MaxLines == 2
MaxN == 3

\* ---- token encoding -----------------------------------------------------
Junk == -1
Hash == -2

Labels == 0..MaxLabel
Tokens == Labels \cup {Junk}

\* lines of one to MaxTokens tokens; the constructor reads the first two
\* tokens only, so the tokens after them are all taken to be the token 0
EdgeLineShapes ==
  {ln \in UNION {[1..k -> Tokens] : k \in 1..MaxTokens} :
     \A i \in 3..Len(ln) : ln[i] = 0}
Lines == {<< >>, <<Hash>>} \cup EdgeLineShapes

\* the two ingestion examples of the specification (section 8, items 5, 6)
ExampleText5 == << <<0, 1>>, <<1, 2>>, <<Hash, Junk>>, << >> >>
ExampleText6 == << <<5, 5>>, <<5, 7>> >>

Contents == UNION {[1..k -> Lines] : k \in 0..MaxLines}
              \cup {ExampleText5, ExampleText6}

Files == {[exists |-> FALSE, openable |-> FALSE, content |-> << >>],
          [exists |-> TRUE, openable |-> FALSE, content |-> << >>]}
           \cup {[exists |-> TRUE, openable |-> TRUE, content |-> c] : c \in Contents}

NoFile == [exists |-> FALSE, openable |-> FALSE, content |-> << >>]
NoError == [kind |-> "none", line |-> 0]
NoOp == [op |-> "none", u |-> 0, v |-> 0, threw |-> "none", pre_edges |-> 0, existed |-> FALSE]

VARIABLES pc, origin, num_vertices_, num_edges_, adj_list_,
          file, line_number, raw_edges, vertices, failbit, error, last_op

vars == <<pc, origin, num_vertices_, num_edges_, adj_list_,
          file, line_number, raw_edges, vertices, failbit, error, last_op>>

ctor_locals == <<file, line_number, raw_edges, vertices, failbit>>

\* ---- helpers on sequences -----------------------------------------------
Range(s) == {s[i] : i \in 1..Len(s)}

Contains(s, x) == \E i \in 1..Len(s) : s[i] = x

RECURSIVE InsertSorted(_, _)
InsertSorted(s, x) ==
  IF Len(s) = 0 THEN <<x>>
  ELSE IF x <= Head(s) THEN <<x>> \o s
  ELSE <<Head(s)>> \o InsertSorted(Tail(s), x)

\* std::sort(vertices.begin(), vertices.end())
RECURSIVE Sort(_)
Sort(s) == IF Len(s) = 0 THEN << >> ELSE InsertSorted(Sort(Tail(s)), Head(s))

\* vertices.erase(std::unique(...), vertices.end()): drops consecutive repeats
RECURSIVE Unique(_)
Unique(s) ==
  IF Len(s) <= 1 THEN s
  ELSE IF s[1] = s[2] THEN Unique(Tail(s))
  ELSE <<s[1]>> \o Unique(Tail(s))

\* ---- the graph object as a value ----------------------------------------
Obj(nv, ne, adj) == [nv |-> nv, ne |-> ne, adj |-> adj, threw |-> "none"]

ThisObj == Obj(num_vertices_, num_edges_, adj_list_)

\* Graph(): num_vertices_(0), num_edges_(0), adj_list_ default-constructed
DefaultObj == Obj(0, 0, << >>)

\* adj_list_.resize(n)
ResizedAdj(n) == [i \in 1..n |-> << >>]

\* Graph(size_t n) with the resize left out
SizedObj_NoResize(n) == Obj(n, 0, << >>)

\* Graph(size_t n)
SizedObj(n) == Obj(n, 0, ResizedAdj(n))

\* has_edge(u, v): false for ids outside the range, else v is listed under u
has_edge(g, u, v) ==
  /\ u < g.nv
  /\ v < g.nv
  /\ Contains(g.adj[u + 1], v)

\* add_edge(u, v) without the test for an edge that is already there
add_edge_NoDuplicateTest(g, u, v) ==
  IF u >= g.nv \/ v >= g.nv THEN [g EXCEPT !.threw = "out_of_range"]
  ELSE IF u = v THEN [g EXCEPT !.threw = "invalid_argument"]
  ELSE [g EXCEPT !.adj = [@ EXCEPT ![u + 1] = Append(@, v), ![v + 1] = Append(@, u)],
                 !.ne = @ + 1]

\* add_edge(u, v)
add_edge(g, u, v) ==
  IF u >= g.nv \/ v >= g.nv THEN [g EXCEPT !.threw = "out_of_range"]
  ELSE IF u = v THEN [g EXCEPT !.threw = "invalid_argument"]
  ELSE IF has_edge(g, u, v) THEN g
  ELSE [g EXCEPT !.adj = [@ EXCEPT ![u + 1] = Append(@, v), ![v + 1] = Append(@, u)],
                 !.ne = @ + 1]

Without(s, x) == SelectSeq(s, LAMBDA y : y # x)

\* remove_edge(u, v)
remove_edge(g, u, v) ==
  IF u >= g.nv \/ v >= g.nv THEN [g EXCEPT !.threw = "out_of_range"]
  ELSE IF ~has_edge(g, u, v) THEN g
  ELSE [g EXCEPT !.adj = [@ EXCEPT ![u + 1] = Without(@, v), ![v + 1] = Without(@, u)],
                 !.ne = @ - 1]

\* add_vertex()
add_vertex(g) == [g EXCEPT !.adj = Append(@, << >>), !.nv = @ + 1]

\* clear()
clear(g) == Obj(0, 0, << >>)

\* ---- the file constructor: parsing --------------------------------------
\* line.find_first_not_of(" \t\r\n") == npos
IsBlank(ln) == Len(ln) = 0

\* line[0] == '#' after trimming
IsComment(ln) == Len(ln) > 0 /\ ln[1] = Hash

\* iss >> x for a size_t x: succeeds on a run of digits
Extracts(tok) == tok >= 0

\* iss >> u_orig >> v_orig: reads the first two tokens, looks at nothing else
ParseLine(ln) ==
  IF Len(ln) >= 1 /\ Extracts(ln[1]) /\ Len(ln) >= 2 /\ Extracts(ln[2])
  THEN [ok |-> TRUE, u |-> ln[1], v |-> ln[2]]
  ELSE [ok |-> FALSE, u |-> 0, v |-> 0]

\* the loop body made one-pass: a vertex slot is allocated while reading
RecordEdge_Eager(st, u, v) ==
  [st EXCEPT !.raw_edges = Append(@, <<u, v>>),
             !.vertices = Append(Append(@, u), v),
             !.nv = @ + 1,
             !.adj = Append(@, << >>)]

\* raw_edges.emplace_back(u, v); vertices.push_back(u); vertices.push_back(v)
RecordEdge(st, u, v) ==
  [st EXCEPT !.raw_edges = Append(@, <<u, v>>),
             !.vertices = Append(Append(@, u), v)]

\* ---- the file constructor: renumbering and insertion --------------------
\* for (i...) map_old_to_new[vertices[i]] = i
MapOldToNew(sorted) ==
  [x \in Range(sorted) |-> (CHOOSE i \in 1..Len(sorted) : sorted[i] = x) - 1]

\* map_old_to_new[k]: operator[] value-initialises a missing key to 0
Lookup(m, k) == IF k \in DOMAIN m THEN m[k] ELSE 0

\* for (const auto& [u_orig, v_orig] : raw_edges) { ... add_edge(u, v); }
RECURSIVE InsertEdges(_, _, _)
InsertEdges(g, m, edges) ==
  IF Len(edges) = 0 \/ g.threw # "none" THEN g
  ELSE LET u == Lookup(m, Head(edges)[1])
           v == Lookup(m, Head(edges)[2])
       IN IF u = v THEN InsertEdges(g, m, Tail(edges))
          ELSE InsertEdges(add_edge(g, u, v), m, Tail(edges))

\* everything after the close check: lines 72-103
BuildGraph(edges, verts) ==
  IF Len(edges) = 0 THEN Obj(0, 0, << >>)
  ELSE LET sorted == Unique(Sort(verts))
           n == Len(sorted)
       IN InsertEdges(Obj(n, 0, ResizedAdj(n)), MapOldToNew(sorted), edges)

\* ---- initial state ------------------------------------------------------
Init ==
  /\ pc = "none"
  /\ origin = "none"
  /\ num_vertices_ = 0
  /\ num_edges_ = 0
  /\ adj_list_ = << >>
  /\ file = NoFile
  /\ line_number = 0
  /\ raw_edges = << >>
  /\ vertices = << >>
  /\ failbit = FALSE
  /\ error = NoError
  /\ last_op = NoOp

SetObj(g) ==
  /\ num_vertices_' = g.nv
  /\ num_edges_' = g.ne
  /\ adj_list_' = g.adj

\* ---- constructors -------------------------------------------------------
DefaultCtor ==
  /\ pc = "none"
  /\ pc' = "ready"
  /\ origin' = "empty"
  /\ SetObj(DefaultObj)
  /\ UNCHANGED <<ctor_locals, error, last_op>>

SizedCtor ==
  /\ pc = "none"
  /\ \E n \in 0..MaxN :
       /\ pc' = "ready"
       /\ origin' = "sized"
       /\ SetObj(SizedObj(n))
  /\ UNCHANGED <<ctor_locals, error, last_op>>

\* Graph(filepath), lines 18-35: existence and open checks, locals set up
FileCtorOpen ==
  /\ pc = "none"
  /\ \E f \in Files :
       /\ file' = f
       /\ origin' = "file"
       /\ SetObj(Obj(0, 0, << >>))
       /\ line_number' = 0
       /\ raw_edges' = << >>
       /\ vertices' = << >>
       /\ failbit' = FALSE
       /\ IF ~f.exists
          THEN pc' = "failed" /\ error' = [kind |-> "not_found", line |-> 0]
          ELSE IF ~f.openable
          THEN pc' = "failed" /\ error' = [kind |-> "open_failed", line |-> 0]
          ELSE pc' = "reading" /\ error' = NoError
  /\ UNCHANGED last_op

\* one evaluation of while (std::getline(file, line)) and of the loop body
ReadLine ==
  /\ pc = "reading"
  /\ IF line_number = Len(file.content)
     THEN \* getline extracts nothing: eofbit and failbit are set, loop ends
          /\ failbit' = TRUE
          /\ pc' = "after_loop"
          /\ UNCHANGED <<line_number, raw_edges, vertices, error,
                         num_vertices_, num_edges_, adj_list_>>
     ELSE LET ln == file.content[line_number + 1]
              p == ParseLine(ln)
              st == RecordEdge([raw_edges |-> raw_edges, vertices |-> vertices,
                                nv |-> num_vertices_, ne |-> num_edges_,
                                adj |-> adj_list_], p.u, p.v)
          IN /\ line_number' = line_number + 1
             /\ failbit' = failbit
             /\ IF IsBlank(ln) \/ IsComment(ln)
                THEN /\ pc' = "reading"
                     /\ UNCHANGED <<raw_edges, vertices, error,
                                    num_vertices_, num_edges_, adj_list_>>
                ELSE IF ~p.ok
                THEN /\ pc' = "failed"
                     /\ error' = [kind |-> "format", line |-> line_number + 1]
                     /\ UNCHANGED <<raw_edges, vertices,
                                    num_vertices_, num_edges_, adj_list_>>
                ELSE /\ pc' = "reading"
                     /\ raw_edges' = st.raw_edges
                     /\ vertices' = st.vertices
                     /\ SetObj(st)
                     /\ UNCHANGED error
  /\ UNCHANGED <<origin, file, last_op>>

\* lines 67-103: file.close(); if (!file) throw; then build the graph.
\* close() leaves the state bits as they are, so !file reads the failbit
\* that the last getline set.
Finish ==
  /\ pc = "after_loop"
  /\ IF failbit
     THEN /\ pc' = "failed"
          /\ error' = [kind |-> "close_failed", line |-> 0]
          /\ UNCHANGED <<num_vertices_, num_edges_, adj_list_>>
     ELSE LET g == BuildGraph(raw_edges, vertices)
          IN /\ SetObj(g)
             /\ IF g.threw = "none"
                THEN pc' = "ready" /\ UNCHANGED error
                ELSE pc' = "failed" /\ error' = [kind |-> g.threw, line |-> 0]
  /\ UNCHANGED <<origin, ctor_locals, last_op>>

\* ---- mutation API on a constructed object -------------------------------
Ids == 0..MaxN

AddEdge ==
  /\ pc = "ready"
  /\ \E u \in Ids, v \in Ids :
       LET g == add_edge(ThisObj, u, v)
       IN /\ SetObj(g)
          /\ last_op' = [op |-> "add_edge", u |-> u, v |-> v, threw |-> g.threw,
                         pre_edges |-> num_edges_,
                         existed |-> has_edge(ThisObj, u, v)]
  /\ UNCHANGED <<pc, origin, ctor_locals, error>>

RemoveEdge ==
  /\ pc = "ready"
  /\ \E u \in Ids, v \in Ids :
       LET g == remove_edge(ThisObj, u, v)
       IN /\ SetObj(g)
          /\ last_op' = [op |-> "remove_edge", u |-> u, v |-> v, threw |-> g.threw,
                         pre_edges |-> num_edges_,
                         existed |-> has_edge(ThisObj, u, v)]
  /\ UNCHANGED <<pc, origin, ctor_locals, error>>

AddVertex ==
  /\ pc = "ready"
  /\ num_vertices_ < MaxN
  /\ SetObj(add_vertex(ThisObj))
  /\ last_op' = [NoOp EXCEPT !.op = "add_vertex", !.pre_edges = num_edges_]
  /\ UNCHANGED <<pc, origin, ctor_locals, error>>

Clear ==
  /\ pc = "ready"
  /\ SetObj(clear(ThisObj))
  /\ last_op' = [NoOp EXCEPT !.op = "clear", !.pre_edges = num_edges_]
  /\ UNCHANGED <<pc, origin, ctor_locals, error>>

Next ==
  \/ DefaultCtor
  \/ SizedCtor
  \/ FileCtorOpen
  \/ ReadLine
  \/ Finish
  \/ AddEdge
  \/ RemoveEdge
  \/ AddVertex
  \/ Clear

Spec == Init /\ [][Next]_vars

\* ---- notions of the specification used by the properties ----------------
\* a well-formed edge line: exactly two unsigned integers
WellFormedEdgeLine(ln) == Len(ln) = 2 /\ ln[1] >= 0 /\ ln[2] >= 0

\* a line that is neither blank, nor a comment, nor a well-formed edge line
Malformed(ln) == Len(ln) > 0 /\ ln[1] # Hash /\ ~WellFormedEdgeLine(ln)

MalformedLines(content) == {i \in 1..Len(content) : Malformed(content[i])}

EdgeLines(content) ==
  {i \in 1..Len(content) : Len(content[i]) > 0 /\ content[i][1] # Hash}

FirstMalformed(content) ==
  CHOOSE i \in MalformedLines(content) : \A j \in MalformedLines(content) : i <= j

Usable == origin = "file" /\ file.exists /\ file.openable

Returned == pc \in {"ready", "failed"}

RECURSIVE SumLen(_)
SumLen(adj) == IF Len(adj) = 0 THEN 0 ELSE Len(Head(adj)) + SumLen(Tail(adj))

RECURSIVE ReachFrom(_, _)
ReachFrom(g, seen) ==
  LET more == seen \cup {w \in 0..(g.nv - 1) : \E x \in seen : Contains(g.adj[x + 1], w)}
  IN IF more = seen THEN seen ELSE ReachFrom(g, more)

\* is_connected(): at most one vertex, or everything is reached from vertex 0
is_connected(g) == g.nv <= 1 \/ ReachFrom(g, {0}) = 0..(g.nv - 1)

\* ---- C2 -----------------------------------------------------------------
\* C2 (as claimed): ingesting an existing, openable resource whose lines are
\* all blank, comments or two unsigned integers returns a Graph and raises
\* nothing; a file constructor that fails fails with the resource error or
\* the format error; the text "0 1\n1 2\n# comment\n\n" gives 3 vertices,
\* 2 edges, neighbors(1) = {0, 2} and a connected graph.
C2_WellFormedIngests ==
  /\ (origin = "file" /\ pc = "failed")
       => error.kind \in {"not_found", "open_failed", "format"}
  /\ (Usable /\ Returned /\ MalformedLines(file.content) = {})
       => /\ pc = "ready"
          /\ error.kind = "none"
          /\ file.content = ExampleText5
               => /\ num_vertices_ = 3
                  /\ num_edges_ = 2
                  /\ Range(adj_list_[2]) = {0, 2}
                  /\ is_connected(ThisObj)

\* ---- C3 -----------------------------------------------------------------
\* C3 (as claimed): once the constructor has consumed a line that is neither
\* blank nor a comment and is not exactly two unsigned integers, it has
\* failed with the format error; the line was not accepted as an edge.
C3_MalformedLineRejected ==
  origin = "file" =>
    \A i \in 1..line_number :
      Malformed(file.content[i]) => (pc = "failed" /\ error.kind = "format")

\* ---- C4 -----------------------------------------------------------------
\* C4 (as claimed): a format error reports the 1-based physical position of
\* the first malformed line of the resource, and reading stopped there.
C4_ErrorLineIsFirstMalformed ==
  (origin = "file" /\ error.kind = "format")
    => /\ MalformedLines(file.content) # {}
       /\ error.line = FirstMalformed(file.content)
       /\ line_number = error.line

\* ---- C5 -----------------------------------------------------------------
\* C5 (as claimed): ingesting "5 5\n5 7\n" returns a graph with
\* vertex_count = 3 and edge_count = 1.
C5_SelfLoopExample ==
  (Usable /\ Returned /\ file.content = ExampleText6)
    => /\ pc = "ready"
       /\ num_vertices_ = 3
       /\ num_edges_ = 1

\* ---- C6 -----------------------------------------------------------------
NoSelfLoops == \A u \in 1..Len(adj_list_) : ~Contains(adj_list_[u], u - 1)

Symmetric ==
  \A u \in 1..Len(adj_list_) : \A v \in 1..Len(adj_list_) :
    Contains(adj_list_[u], v - 1) <=> Contains(adj_list_[v], u - 1)

NoDuplicates ==
  \A u \in 1..Len(adj_list_) : Cardinality(Range(adj_list_[u])) = Len(adj_list_[u])

EdgeCountOK == 2 * num_edges_ = SumLen(adj_list_)

IdsInRange ==
  \A u \in 1..Len(adj_list_) : \A x \in Range(adj_list_[u]) : x >= 0 /\ x < num_vertices_

LengthOK == num_vertices_ = Len(adj_list_)

\* C6: every constructed graph, whatever constructor made it and whatever
\* add_edge, remove_edge, add_vertex and clear calls (failing ones included)
\* followed, satisfies the five structural invariants and has vertex_count
\* equal to the length of the adjacency structure.
C6_StructuralInvariants ==
  pc = "ready" =>
    /\ NoSelfLoops
    /\ Symmetric
    /\ NoDuplicates
    /\ EdgeCountOK
    /\ IdsInRange
    /\ LengthOK

\* a graph with edges on which the last call failed
C6_Witness ==
  /\ pc = "ready"
  /\ num_edges_ >= 2
  /\ last_op.threw # "none"

\* ---- C7 -----------------------------------------------------------------
\* C7: ingestion is all-or-nothing: a graph that came out of the file
\* constructor came from a resource without a malformed line, and as long
\* as the constructor has not returned a graph (it is reading, has left the
\* loop, or has failed) no vertex is allocated and no edge is inserted.
C7_AllOrNothing ==
  origin = "file" =>
    /\ pc = "ready" => MalformedLines(file.content) = {}
    /\ pc # "ready" =>
         /\ num_vertices_ = 0
         /\ num_edges_ = 0
         /\ adj_list_ = << >>

\* a format error after a well-formed edge line had been collected
C7_Witness ==
  /\ origin = "file"
  /\ pc = "failed"
  /\ error.kind = "format"
  /\ Len(raw_edges) >= 1
  /\ WellFormedEdgeLine(file.content[1])
  /\ adj_list_ = << >>

\* ---- C8 -----------------------------------------------------------------
\* C8 (as claimed): a resource without any edge line ingests to the empty
\* graph: vertex_count = 0, edge_count = 0, empty adjacency structure.
C8_NoEdgeLinesGivesEmptyGraph ==
  (Usable /\ Returned /\ EdgeLines(file.content) = {})
    => /\ pc = "ready"
       /\ num_vertices_ = 0
       /\ num_edges_ = 0
       /\ adj_list_ = << >>

\* ---- C9 -----------------------------------------------------------------
\* C9: a step that is add_edge(u, v) with valid u # v leaves vertex_count,
\* edge_count and every neighbour list as they were when the edge was there
\* in either orientation, and otherwise raises edge_count by exactly one;
\* afterwards has_edge(u, v) and has_edge(v, u) hold and a second
\* add_edge(u, v) would change nothing.
C9_AddEdgeIdempotent ==
  [][(pc = "ready" /\ last_op'.op = "add_edge")
       => LET u == last_op'.u
              v == last_op'.v
              before == Obj(num_vertices_, num_edges_, adj_list_)
              after == Obj(num_vertices_', num_edges_', adj_list_')
          IN (u # v /\ u < num_vertices_ /\ v < num_vertices_)
               => /\ last_op'.threw = "none"
                  /\ (has_edge(before, u, v) \/ has_edge(before, v, u))
                       => after = before
                  /\ ~(has_edge(before, u, v) \/ has_edge(before, v, u))
                       => /\ num_edges_' = num_edges_ + 1
                          /\ num_vertices_' = num_vertices_
                  /\ has_edge(after, u, v)
                  /\ has_edge(after, v, u)
                  /\ add_edge(after, u, v) = after
                  /\ add_edge(after, v, u) = after]_vars

\* add_edge was just called on an edge that was already there
C9_Witness ==
  /\ pc = "ready"
  /\ last_op.op = "add_edge"
  /\ last_op.threw = "none"
  /\ last_op.existed
  /\ last_op.pre_edges = num_edges_
  /\ num_edges_ >= 1
====
